---------------------------- MODULE Spec2Model ----------------------------
(***************************************************************************)
(* State-machine model of the RAG service (rag-service/app): document      *)
(* ingestion into the DocumentChunk table and the query paths that write   *)
(* ChatSession / ChatMessage.  Every unit of work talks to the store       *)
(* through get_db_cursor: one connection, one transaction, committed when  *)
(* the with-block ends and rolled back when it raises.  The store is       *)
(* PostgreSQL at its default isolation level (READ COMMITTED): a statement *)
(* sees the rows committed when the statement starts, plus the writes of   *)
(* its own transaction.                                                    *)
(***************************************************************************)
EXTENDS Integers, Sequences, FiniteSets, TLC

None == "None"

\* ------------------------------------------------------------------ bounds
MaxRuns == 2            \* ingestion units of work (process_document calls)
MaxQueries == 2         \* query requests (synchronous or streaming)

Runs == 1..MaxRuns
Queries == 1..MaxQueries
Docs == {"d1", "d2"}    \* rows of GuidanceDocument (externally owned)

\* ----------------------------------------------------------- configuration
chunk_size == 512
chunk_overlap == 50

Min(a, b) == IF a < b THEN a ELSE b

\* What the extractor can return for a document: a list of {page, text}
\* dicts, pages with blank text already dropped.  A text is known by a name
\* and by the number of tokens the tokenizer encodes it to.
PagesA == << [page |-> 1, text |-> "A1", ntok |-> 600],
             [page |-> 2, text |-> "A2", ntok |-> 100] >>
PagesB == << [page |-> 1, text |-> "B1", ntok |-> 100] >>
PageChoices == { <<>>, PagesA, PagesB }

\* ---------------------------------------------------------------- chunking
\* The window tokens[i:chunk_end] of a text's token sequence, decoded:
\* the content of one passage.
Window(text, i, chunk_end) == [text |-> text, lo |-> i, hi |-> chunk_end]

Max(a, b) == IF a < b THEN b ELSE a

\* A slice bound as Python reads it on a list of n items: a negative bound
\* counts from the end, and every bound is clamped to 0..n.
SliceBound(x, n) == IF x < 0 THEN Max(n + x, 0) ELSE Min(x, n)

\* One turn's dict: chunk_end = min(i + chunk_size, len(tokens)), the
\* tokens tokens[i:chunk_end], their decoded text and their count.
ChunkDict(size, text, ntok, page_start, i, chunk_index) ==
    LET chunk_end == Min(i + size, ntok)
        lo == SliceBound(i, ntok)
        hi == Max(lo, SliceBound(chunk_end, ntok))
    IN  [content |-> Window(text, lo, hi),
         page_start |-> page_start,
         section_title |-> None,
         chunk_index |-> chunk_index,
         token_count |-> hi - lo]

\* (mutation) the loop moves forward by chunk_size, forgetting the overlap.
Stride_NoOverlap(size, overlap) == size

\* "i += self.chunk_size - self.chunk_overlap".
Stride(size, overlap) == size - overlap

RECURSIVE chunk_loop(_, _, _, _, _, _)
chunk_loop(text, ntok, page_start, i, chunk_index, chunks) ==
    IF i < ntok
    THEN chunk_loop(text, ntok, page_start,
                    i + Stride(chunk_size, chunk_overlap),
                    chunk_index + 1,
                    Append(chunks,
                           ChunkDict(chunk_size, text, ntok, page_start, i, chunk_index)))
    ELSE chunks

chunk_text(text, ntok, page_start) ==
    chunk_loop(text, ntok, page_start, 0, 0, <<>>)

\* (mutation) the chunks keep the index chunk_text gave them.
Renumber_PerPage(page_chunks, current_chunk_index) == page_chunks

\* Renumber one page's chunks from current_chunk_index on.
Renumber(page_chunks, current_chunk_index) ==
    [k \in 1..Len(page_chunks) |->
        [page_chunks[k] EXCEPT !.chunk_index = current_chunk_index + k - 1]]

RECURSIVE chunk_pages(_, _, _)
chunk_pages(pages, p, all_chunks) ==
    IF p > Len(pages)
    THEN all_chunks
    ELSE LET page_chunks == chunk_text(pages[p].text, pages[p].ntok, pages[p].page)
         IN  chunk_pages(pages, p + 1,
                         all_chunks \o Renumber(page_chunks, Len(all_chunks)))

chunk_document(pages) == chunk_pages(pages, 1, <<>>)

\* -------------------------------------------------------------- embeddings
\* The embedding provider is a function of the text it is given.  A vector
\* is known here by the angle class of its direction (0..2).
PassageVector(content) ==
    IF content.lo = 0 THEN (IF content.hi >= chunk_size THEN 0 ELSE 1) ELSE 2

\* embed_texts(texts): one vector per passage text, in order.
embed_texts(texts) == [k \in 1..Len(texts) |-> PassageVector(texts[k])]

\* embed_text(text): the vector of a query text.
embed_text(text) == IF text = "Q" THEN 0 ELSE 1

\* zip(chunks, embeddings): as long as the shorter of the two.
Zip(chunks, embeddings) ==
    [k \in 1..Min(Len(chunks), Len(embeddings)) |->
        [chunk |-> chunks[k], embedding |-> embeddings[k]]]


\* ------------------------------------------------------------------- state
VARIABLES
    store,        \* committed rows of "DocumentChunk"
    rpc,          \* per ingestion run: where process_document stands
    rdoc,         \* per run: document_id
    rpages,       \* per run: pages returned by the extractor
    rzip,         \* per run: zip(chunks, embeddings)
    rsnap,        \* per run: ids of the rows its DELETE statement saw
    rdel,         \* per run: ids of the rows its transaction deleted (locked)
    rins,         \* per run: number of INSERT statements executed so far
    lastCommit,   \* per document: the run that committed last (0: none yet)
    overlapped,   \* runs whose transaction overlapped another run's on the same document
    lastRead      \* what the last status read returned

ingestVars == << store, rpc, rdoc, rpages, rzip, rsnap, rdel, rins,
                 lastCommit, overlapped, lastRead >>

VARIABLES
    sessions,     \* committed rows of "ChatSession"
    messages,     \* committed rows of "ChatMessage"
    now,          \* the store's clock
    fkey,         \* whether "ChatMessage"."sessionId" is a foreign key (the schema's choice)
    qpc,          \* per query: where the request handler stands
    qreq,         \* per query: the QueryRequest
    qchunks,      \* per query: the retrieval results
    qhist,        \* per query: chat_history
    qsid,         \* per query: session_id (request.session_id or a fresh uuid4)
    qanswer,      \* per query: answer (synchronous) or full_response (streaming)
    qevents,      \* per query: the events the streaming generator has yielded
    qtx,          \* per query: its open persistence transaction
    qprompt,      \* per query: what the generation provider was called with
    qsources      \* per query: the sources list handed to the caller

queryVars == << sessions, messages, now, fkey, qpc, qreq, qchunks, qhist,
                qsid, qanswer, qevents, qtx, qprompt, qsources >>

VARIABLES
    batch,        \* the batch ingestion request (ingest_all_documents[_sync]) under way
    settings,     \* Settings: chunk_size and chunk_overlap of the chunking service
    chunker       \* the chunk_document / chunk_text call under way

batchVars == << batch >>
chunkVars == << settings, chunker >>

vars == << store, rpc, rdoc, rpages, rzip, rsnap, rdel, rins,
           lastCommit, overlapped, lastRead,
           sessions, messages, now, fkey, qpc, qreq, qchunks, qhist,
           qsid, qanswer, qevents, qtx, qprompt, qsources,
           batch, settings, chunker >>

\* --------------------------------------------------------------- the store
\* One row of "DocumentChunk" as process_document inserts it: the k-th
\* (chunk, embedding) pair of run r, under a fresh uuid4.
ChunkRow(r, document_id, pair, k) ==
    [id |-> << r, k >>,
     documentId |-> document_id,
     content |-> pair.chunk.content,
     pageStart |-> pair.chunk.page_start,
     sectionTitle |-> pair.chunk.section_title,
     chunkIndex |-> pair.chunk.chunk_index,
     embedding |-> pair.embedding]

\* The rows run r has inserted in its open transaction so far.
Pending(r) == { ChunkRow(r, rdoc[r], rzip[r][k], k) : k \in 1..rins[r] }

\* Every row run r inserts when its loop runs to the end.
AllRows(r) == { ChunkRow(r, rdoc[r], rzip[r][k], k) : k \in 1..Len(rzip[r]) }

DocRows(rows, d) == { row \in rows : row.documentId = d }
Ids(rows) == { row.id : row \in rows }

InTx(r) == rpc[r] \in {"deleting", "inserting"}

\* --------------------------------------------------------------------- Init
NoRequest == [mode |-> None, session_id |-> None, document_id |-> None,
              top_k |-> 0, question |-> None]
NoTx == [start |-> -1, sess |-> FALSE, nmsg |-> 0, upd |-> FALSE]
NoPrompt == [context |-> <<>>, messages |-> <<>>]
NoBatch == [mode |-> None, state |-> "idle", documents |-> <<>>, n |-> 0,
            results |-> <<>>,
            summary |-> [processed |-> 0, completed |-> 0, failed |-> 0]]
NoCall == [pc |-> "idle", pages |-> <<>>, p |-> 0, i |-> 0, chunk_index |-> 0,
           chunks |-> <<>>, all_chunks |-> <<>>]

\* No batch request and no chunking call under way; the settings of config.py.
InitService ==
    /\ batch = NoBatch
    /\ settings = [chunk_size |-> chunk_size, chunk_overlap |-> chunk_overlap]
    /\ chunker = NoCall

InitQuery ==
    /\ sessions = {}
    /\ messages = {}
    /\ now = 0
    /\ qpc = [q \in Queries |-> "idle"]
    /\ qreq = [q \in Queries |-> NoRequest]
    /\ qchunks = [q \in Queries |-> <<>>]
    /\ qhist = [q \in Queries |-> <<>>]
    /\ qsid = [q \in Queries |-> None]
    /\ qanswer = [q \in Queries |-> ""]
    /\ qevents = [q \in Queries |-> <<>>]
    /\ qtx = [q \in Queries |-> NoTx]
    /\ qprompt = [q \in Queries |-> NoPrompt]
    /\ qsources = [q \in Queries |-> <<>>]

\* Nothing ingested yet, no query made.  (Ingestion never reads fkey.)
Init ==
    /\ InitQuery
    /\ InitService
    /\ fkey = TRUE
    /\ store = {}
    /\ rpc = [r \in Runs |-> "idle"]
    /\ rdoc = [r \in Runs |-> None]
    /\ rpages = [r \in Runs |-> <<>>]
    /\ rzip = [r \in Runs |-> <<>>]
    /\ rsnap = [r \in Runs |-> {}]
    /\ rdel = [r \in Runs |-> {}]
    /\ rins = [r \in Runs |-> 0]
    /\ lastCommit = [d \in Docs |-> 0]
    /\ overlapped = {}
    /\ lastRead = [doc |-> None, rows |-> {}, fresh |-> TRUE]

\* ---------------------------------------------------------------- ingestion
\* ingest_document / ingest_all_documents: process_document(d, url) is
\* queued as a background task.  Nothing stops a second task for the same
\* document from being queued while the first is still running.
Dispatch(r, d) ==
    /\ rpc[r] = "idle"
    /\ IF r = 1 THEN TRUE ELSE rpc[r - 1] # "idle"
    /\ rpc' = [rpc EXCEPT ![r] = "extract"]
    /\ rdoc' = [rdoc EXCEPT ![r] = d]
    /\ UNCHANGED << store, rpages, rzip, rsnap, rdel, rins, lastCommit,
                    overlapped, lastRead >>
    /\ UNCHANGED << queryVars, batchVars, chunkVars >>

\* pages = await extract_text_from_url(pdf_url); "if not pages: return".
Extract(r, pages) ==
    /\ rpc[r] = "extract"
    /\ rpages' = [rpages EXCEPT ![r] = pages]
    /\ rpc' = [rpc EXCEPT ![r] = IF pages = <<>> THEN "empty" ELSE "chunk"]
    /\ UNCHANGED << store, rdoc, rzip, rsnap, rdel, rins, lastCommit,
                    overlapped, lastRead >>
    /\ UNCHANGED << queryVars, batchVars, chunkVars >>

\* The download or the PDF parser raises: process_document re-raises.
ExtractFail(r) ==
    /\ rpc[r] = "extract"
    /\ rpc' = [rpc EXCEPT ![r] = "failed"]
    /\ UNCHANGED << store, rdoc, rpages, rzip, rsnap, rdel, rins, lastCommit,
                    overlapped, lastRead >>
    /\ UNCHANGED << queryVars, batchVars, chunkVars >>

\* chunks = chunk_document(pages); embeddings = embed_texts(chunk_texts).
ChunkAndEmbed(r) ==
    /\ rpc[r] = "chunk"
    /\ LET chunks == chunk_document(rpages[r])
           chunk_texts == [k \in 1..Len(chunks) |-> chunks[k].content]
           embeddings == embed_texts(chunk_texts)
       IN  rzip' = [rzip EXCEPT ![r] = Zip(chunks, embeddings)]
    /\ rpc' = [rpc EXCEPT ![r] = "store"]
    /\ UNCHANGED << store, rdoc, rpages, rsnap, rdel, rins, lastCommit,
                    overlapped, lastRead >>
    /\ UNCHANGED << queryVars, batchVars, chunkVars >>

\* (mutation) the old passages deleted, in a transaction of its own, before
\* the embeddings are asked for: the provider's failure finds them gone.
EmbedFail_AfterDelete(r) ==
    /\ rpc[r] = "chunk"
    /\ rpc' = [rpc EXCEPT ![r] = "failed"]
    /\ store' = { row \in store : row.documentId # rdoc[r] }
    /\ UNCHANGED << rdoc, rpages, rzip, rsnap, rdel, rins, lastCommit,
                    overlapped, lastRead >>
    /\ UNCHANGED << queryVars, batchVars, chunkVars >>

\* The embedding provider raises.
EmbedFail(r) ==
    /\ rpc[r] = "chunk"
    /\ rpc' = [rpc EXCEPT ![r] = "failed"]
    /\ UNCHANGED << store, rdoc, rpages, rzip, rsnap, rdel, rins, lastCommit,
                    overlapped, lastRead >>
    /\ UNCHANGED << queryVars, batchVars, chunkVars >>

\* (mutation) the DELETE statement left out: nothing is deleted.
DeleteTargets_Skipped(rows, d) == {}

\* (mutation) the DELETE statement without its WHERE clause.
DeleteTargets_NoWhere(rows, d) == { row.id : row \in rows }

\* The rows a DELETE ... WHERE "documentId" = d statement looks for: those
\* committed when the statement starts.
DeleteTargets(rows, d) == Ids(DocRows(rows, d))

\* "with get_db_cursor() as cursor": a transaction opens and the DELETE
\* statement starts, on the rows committed at that moment.
DeleteStart(r) ==
    /\ rpc[r] = "store"
    /\ rsnap' = [rsnap EXCEPT ![r] = DeleteTargets(store, rdoc[r])]
    /\ rpc' = [rpc EXCEPT ![r] = "deleting"]
    /\ overlapped' = overlapped \cup
          UNION { {r, o} : o \in { x \in Runs \ {r} : InTx(x) /\ rdoc[x] = rdoc[r] } }
    /\ UNCHANGED << store, rdoc, rpages, rzip, rdel, rins, lastCommit, lastRead >>
    /\ UNCHANGED << queryVars, batchVars, chunkVars >>

\* The DELETE statement ends.  It waits while another open transaction
\* holds the lock of a row it looks for; a row that transaction deleted and
\* committed is skipped, and rows committed after the statement started
\* are not seen.
DeleteFinish(r) ==
    /\ rpc[r] = "deleting"
    /\ \A o \in Runs \ {r} : InTx(o) => rdel[o] \cap rsnap[r] = {}
    /\ rdel' = [rdel EXCEPT ![r] = rsnap[r] \cap Ids(store)]
    /\ rpc' = [rpc EXCEPT ![r] = "inserting"]
    /\ UNCHANGED << store, rdoc, rpages, rzip, rsnap, rins, lastCommit,
                    overlapped, lastRead >>
    /\ UNCHANGED << queryVars, batchVars, chunkVars >>

\* One turn of "for chunk, embedding in zip(chunks, embeddings)": one INSERT.
Insert(r) ==
    /\ rpc[r] = "inserting"
    /\ rins[r] < Len(rzip[r])
    /\ rins' = [rins EXCEPT ![r] = rins[r] + 1]
    /\ UNCHANGED << store, rpc, rdoc, rpages, rzip, rsnap, rdel, lastCommit,
                    overlapped, lastRead >>
    /\ UNCHANGED << queryVars, batchVars, chunkVars >>

\* conn.commit(): the deletes and the inserts of the transaction become
\* visible together.
CommitRows(rows, r) == { row \in rows : row.id \notin rdel[r] } \cup Pending(r)

Commit(r) ==
    /\ rpc[r] = "inserting"
    /\ rins[r] = Len(rzip[r])
    /\ store' = CommitRows(store, r)
    /\ rpc' = [rpc EXCEPT ![r] = "done"]
    /\ lastCommit' = [lastCommit EXCEPT ![rdoc[r]] = r]
    /\ UNCHANGED << rdoc, rpages, rzip, rsnap, rdel, rins, overlapped, lastRead >>
    /\ UNCHANGED << queryVars, batchVars, chunkVars >>

\* (mutation) the except branch commits what the transaction did so far.
RollbackRows_Commits(rows, r) ==
    { row \in rows : row.id \notin rdel[r] } \cup Pending(r)

\* conn.rollback(): what the committed table holds after a statement of the
\* transaction (the DELETE, an INSERT or the commit itself) raised.
RollbackRows(rows, r) == rows

TxFail(r) ==
    /\ InTx(r)
    /\ store' = RollbackRows(store, r)
    /\ rpc' = [rpc EXCEPT ![r] = "failed"]
    /\ UNCHANGED << rdoc, rpages, rzip, rsnap, rdel, rins, lastCommit,
                    overlapped, lastRead >>
    /\ UNCHANGED << queryVars, batchVars, chunkVars >>

\* get_ingest_status(d): SELECT COUNT(*) over the committed rows of d.
ReadStatus(d) ==
    /\ lastRead' = [doc |-> d, rows |-> DocRows(store, d),
                    fresh |-> lastCommit[d] = 0]
    /\ lastRead' # lastRead
    /\ UNCHANGED << store, rpc, rdoc, rpages, rzip, rsnap, rdel, rins,
                    lastCommit, overlapped >>
    /\ UNCHANGED << queryVars, batchVars, chunkVars >>

RunStep(r) ==
    \/ \E d \in Docs : Dispatch(r, d)
    \/ \E pages \in PageChoices : Extract(r, pages)
    \/ ExtractFail(r)
    \/ ChunkAndEmbed(r)
    \/ EmbedFail(r)
    \/ DeleteStart(r)
    \/ DeleteFinish(r)
    \/ Insert(r)
    \/ Commit(r)
    \/ TxFail(r)

NextIngest ==
    \/ \E r \in Runs : RunStep(r)
    \/ \E d \in Docs : ReadStatus(d)

IngestSpec == Init /\ [][NextIngest]_vars


\* Ingestion with the units of work dispatched one after the other: a run is
\* queued only when no other run is under way.
Quiet == \A o \in Runs : rpc[o] \in {"idle", "done", "empty", "failed"}

DispatchSeq(r, d) == Quiet /\ Dispatch(r, d)

RunStepSeq(r) ==
    \/ \E d \in Docs : DispatchSeq(r, d)
    \/ \E pages \in PageChoices : Extract(r, pages)
    \/ ExtractFail(r)
    \/ ChunkAndEmbed(r)
    \/ EmbedFail(r)
    \/ DeleteStart(r)
    \/ DeleteFinish(r)
    \/ Insert(r)
    \/ Commit(r)
    \/ TxFail(r)

NextIngestSeq ==
    \/ \E r \in Runs : RunStepSeq(r)
    \/ \E d \in Docs : ReadStatus(d)

IngestSeqSpec == Init /\ [][NextIngestSeq]_vars


\* ---------------------------------------------------------- batch ingestion
\* POST /ingest/all and /ingest/all/sync.  The k-th selected document is
\* processed by run k.  batch.n counts the documents whose processing has
\* ended; batch.results is the results list of the synchronous variant.
BatchModes == {"background", "sync"}

\* The rows the SELECT may return, in any order: the documents with a
\* "pdfUrl" and no row in "DocumentChunk".
PendingLists(rows, withUrl) ==
    LET pending == { d \in withUrl : DocRows(rows, d) = {} }
        n == Cardinality(pending)
    IN  { f \in [1..n -> pending] : \A i, j \in 1..n : i # j => f[i] # f[j] }

\* The handler selects the pending documents.  The background variant queues
\* one task per document and returns; its tasks then run one after the
\* other.  The synchronous variant enters its loop.
SelectPending(mode, withUrl) ==
    /\ batch.state = "idle"
    /\ \E documents \in PendingLists(store, withUrl) :
          batch' = [NoBatch EXCEPT !.mode = mode, !.state = "running",
                                   !.documents = documents]
    /\ UNCHANGED << ingestVars, queryVars, chunkVars >>

\* process_document is called for the next document: the next queued task
\* is started, or the loop's next turn awaits it.
BatchDispatch(r) ==
    /\ batch.state = "running"
    /\ r = batch.n + 1
    /\ r <= Len(batch.documents)
    /\ Dispatch(r, batch.documents[r])

\* One entry of the results list of the synchronous variant.
ResultOfRun(r) ==
    IF rpc[r] = "failed"
    THEN [id |-> rdoc[r], status |-> "failed", chunks_count |-> 0, error |-> "error"]
    ELSE [id |-> rdoc[r], status |-> "completed",
          chunks_count |-> Cardinality(DocRows(store, rdoc[r])), error |-> None]

\* What becomes of the batch when process_document has ended for one
\* document.  The synchronous loop catches the exception ("except Exception
\* as e") and goes on.  The background tasks are awaited one after the other
\* with nothing around them: the exception process_document re-raises ends
\* the sequence, and the tasks still queued are not run.
AfterTask(mode, failed) ==
    IF failed /\ mode = "background" THEN "aborted" ELSE "running"

\* process_document has returned or raised for the current document.
BatchRecord(r) ==
    /\ batch.state = "running"
    /\ r = batch.n + 1
    /\ r <= Len(batch.documents)
    /\ rpc[r] \in {"done", "empty", "failed"}
    /\ batch' = [batch EXCEPT
                    !.n = r,
                    !.state = AfterTask(batch.mode, rpc[r] = "failed"),
                    !.results = IF batch.mode = "sync"
                                THEN Append(batch.results, ResultOfRun(r))
                                ELSE batch.results]
    /\ UNCHANGED << ingestVars, queryVars, chunkVars >>

CountStatus(results, status) ==
    Cardinality({ k \in 1..Len(results) : results[k].status = status })

\* Every document has been processed: the synchronous variant computes its
\* summary and returns; the background variant has run its last task.
BatchEnd ==
    /\ batch.state = "running"
    /\ batch.n = Len(batch.documents)
    /\ batch' = [batch EXCEPT
                    !.state = IF batch.mode = "sync" THEN "returned" ELSE "finished",
                    !.summary = IF batch.mode = "sync"
                                THEN [processed |-> Len(batch.results),
                                      completed |-> CountStatus(batch.results, "completed"),
                                      failed |-> CountStatus(batch.results, "failed")]
                                ELSE batch.summary]
    /\ UNCHANGED << ingestVars, queryVars, chunkVars >>

BatchRunStep(r) ==
    \/ BatchDispatch(r)
    \/ \E pages \in PageChoices : Extract(r, pages)
    \/ ExtractFail(r)
    \/ ChunkAndEmbed(r)
    \/ EmbedFail(r)
    \/ DeleteStart(r)
    \/ DeleteFinish(r)
    \/ Insert(r)
    \/ Commit(r)
    \/ TxFail(r)
    \/ BatchRecord(r)

NextBatch ==
    \/ \E mode \in BatchModes, withUrl \in SUBSET Docs : SelectPending(mode, withUrl)
    \/ \E r \in Runs : BatchRunStep(r)
    \/ BatchEnd

BatchSpec == Init /\ [][NextBatch]_vars

\* ------------------------------------------------------------------ queries
MaxFrags == 2            \* fragments one generation stream delivers at most
\* The k-th fragment of the provider's text stream.
FragmentAt(k) == IF k % 2 = 1 THEN "a" ELSE "b"
default_top_k == 5
history_limit == 10

Question == "Q"                    \* request.question
Answer == "ab"                     \* response.content[0].text
Title(d) == << "title", d >>
FdaDocumentId(d) == << "fda", d >>
NewSessionId(q) == "s" \o ToString(q)  \* str(uuid.uuid4())

Abs(x) == IF x < 0 THEN 0 - x ELSE x

\* dc.embedding <=> query: the cosine distance, in units of 1.0.
CosineDistance(a, b) == Abs(a - b)

\* One row of the SELECT of search_similar_chunks, as the returned dict.
ResultOf(row, query_embedding) ==
    [id |-> row.id,
     document_id |-> row.documentId,
     content |-> row.content,
     page_start |-> row.pageStart,
     section_title |-> row.sectionTitle,
     chunk_index |-> row.chunkIndex,
     title |-> Title(row.documentId),
     fda_document_id |-> FdaDocumentId(row.documentId),
     similarity |-> 1 - CosineDistance(row.embedding, query_embedding)]

\* embedding IS NOT NULL (a NULL embedding is written as a negative class).
HasEmbedding(row) == row.embedding >= 0

\* "if document_id:" picks the statement with WHERE dc."documentId" = %s;
\* None and the empty string pick the statement without it.
Scoped(document_id) == document_id \notin {None, ""}

\* WHERE ("documentId" = document_id AND) embedding IS NOT NULL, joined
\* with "GuidanceDocument".
Candidates(rows, document_id) ==
    { row \in rows : /\ row.documentId \in Docs
                     /\ HasEmbedding(row)
                     /\ (Scoped(document_id) => row.documentId = document_id) }

\* ORDER BY distance LIMIT k: every order the store may return, rows at
\* the same distance coming in any order.
Ranked(cands, query_embedding, k) ==
    LET n == Min(k, Cardinality(cands))
        dist(row) == CosineDistance(row.embedding, query_embedding)
    IN  { s \in [1..n -> cands] :
            /\ \A i, j \in 1..n : i < j => s[i] # s[j] /\ dist(s[i]) <= dist(s[j])
            /\ \A row \in cands :
                  (\A i \in 1..n : s[i] # row)
                      => \A i \in 1..n : dist(s[i]) <= dist(row) }

\* "k = top_k or self.top_k".
LimitOf(top_k) == IF top_k = 0 THEN default_top_k ELSE top_k

\* The store rejects the statement when LIMIT is negative: cursor.execute
\* raises.
SearchRaises(top_k) == LimitOf(top_k) < 0

\* search_similar_chunks(query, document_id, top_k): the lists it may return.
search_similar_chunks(rows, query, document_id, top_k) ==
    LET k == LimitOf(top_k)
        query_embedding == embed_text(query)
    IN  { [i \in 1..Len(s) |-> ResultOf(s[i], query_embedding)] :
            s \in Ranked(Candidates(rows, document_id), query_embedding, k) }

\* SELECT role, content FROM "ChatMessage" WHERE "sessionId" = sid
\* ORDER BY "createdAt" ASC LIMIT 10: every list the store may return,
\* messages with the same createdAt coming in any order.
HistoryLists(msgs, sid) ==
    LET mine == { m \in msgs : m.sessionId = sid }
        n == Min(history_limit, Cardinality(mine))
    IN  { [i \in 1..n |-> [role |-> s[i].role, content |-> s[i].content]] :
            s \in { t \in [1..n -> mine] :
                      /\ \A i, j \in 1..n :
                            i < j => t[i] # t[j] /\ t[i].createdAt <= t[j].createdAt
                      /\ \A m \in mine :
                            (\A i \in 1..n : t[i] # m)
                                => \A i \in 1..n : t[i].createdAt <= m.createdAt } }

\* The session ids a caller can put in a request: one it made up, or one a
\* response (or a streaming sources event) has shown it.
Shown(o) ==
    \/ qpc[o] = "done"
    \/ qreq[o].mode = "stream" /\ qevents[o] # <<>>
KnownSessionIds == {"sX"} \cup { qsid[o] : o \in { x \in Queries : Shown(x) } }

QInTx(q) == qpc[q] \in {"tx_user", "tx_assistant", "tx_update", "tx_commit"}

\* The rows a query's open transaction has written so far.  NOW() is the
\* start time of the transaction, whatever the statement.
PendingSessions(q) ==
    IF qtx[q].sess
    THEN { [id |-> qsid[q], createdAt |-> qtx[q].start, updatedAt |-> qtx[q].start] }
    ELSE {}

UserMessage(q) ==
    [id |-> << q, "user" >>, sessionId |-> qsid[q], role |-> "user",
     content |-> qreq[q].question, createdAt |-> qtx[q].start]

\* (mutation) the assistant message saved with the last fragment only.
AssistantMessage_LastFragment(q) ==
    [id |-> << q, "assistant" >>, sessionId |-> qsid[q], role |-> "assistant",
     content |-> IF qreq[q].mode = "stream" /\ Len(qevents[q]) > 1
                 THEN qevents[q][Len(qevents[q])].content
                 ELSE qanswer[q],
     createdAt |-> qtx[q].start]

AssistantMessage(q) ==
    [id |-> << q, "assistant" >>, sessionId |-> qsid[q], role |-> "assistant",
     content |-> qanswer[q], createdAt |-> qtx[q].start]

PendingMessages(q) ==
    (IF qtx[q].nmsg >= 1 THEN {UserMessage(q)} ELSE {}) \cup
    (IF qtx[q].nmsg >= 2 THEN {AssistantMessage(q)} ELSE {})

\* The transaction starts with its first statement.
Started(q) == IF qtx[q].start = -1 THEN now ELSE qtx[q].start

\* (mutation) the label written from enumerate's index as it is.
build_context_ZeroBased(chunks) ==
    [k \in 1..Len(chunks) |->
        LET i == k - 1
        IN  [label |-> i,
             title |-> chunks[k].title,
             page |-> chunks[k].page_start,
             content |-> chunks[k].content]]

\* build_context(chunks): one block per chunk, in the order of the list; the
\* block of the i-th chunk (enumerate counts from 0) is headed
\* "[Source i+1]", then the title and "(Page n)" when the chunk has them,
\* then the chunk's content.
build_context(chunks) ==
    [k \in 1..Len(chunks) |->
        LET i == k - 1
        IN  [label |-> i + 1,
             title |-> chunks[k].title,
             page |-> chunks[k].page_start,
             content |-> chunks[k].content]]

\* The messages list of generate_response / generate_response_stream: the
\* chat history, role and content of each message, then the question as a
\* user message.
build_messages(question, chat_history) ==
    [k \in 1..Len(chat_history) |->
        [role |-> chat_history[k].role, content |-> chat_history[k].content]]
    \o << [role |-> "user", content |-> question] >>

\* What the generation provider is called with.
Prompt(q) == [context |-> build_context(qchunks[q]),
              messages |-> build_messages(qreq[q].question, qhist[q])]

\* len(chunk["content"]): a passage text is known by its token window, and
\* counts one character per token.
ContentLen(content) == content.hi - content.lo
preview_len == 200

\* chunk["content"][:200] + "..." if len(chunk["content"]) > 200 else chunk["content"]
ContentPreview(content) ==
    IF ContentLen(content) > preview_len
    THEN [of |-> content, chars |-> preview_len, ellipsis |-> TRUE]
    ELSE [of |-> content, chars |-> ContentLen(content), ellipsis |-> FALSE]

\* chunk["content"][:200]
StreamContentPreview(content) ==
    [of |-> content, chars |-> Min(preview_len, ContentLen(content)), ellipsis |-> FALSE]

\* The sources list of the synchronous response: one Source per chunk.
Sources(chunks) ==
    [k \in 1..Len(chunks) |->
        [document_id |-> chunks[k].document_id,
         title |-> chunks[k].title,
         fda_document_id |-> chunks[k].fda_document_id,
         page |-> chunks[k].page_start,
         content_preview |-> ContentPreview(chunks[k].content),
         similarity |-> chunks[k].similarity]]

\* The sources list of the streaming sources event.
StreamSources(chunks) ==
    [k \in 1..Len(chunks) |->
        [document_id |-> chunks[k].document_id,
         title |-> chunks[k].title,
         fda_document_id |-> chunks[k].fda_document_id,
         page |-> chunks[k].page_start,
         content_preview |-> StreamContentPreview(chunks[k].content),
         similarity |-> chunks[k].similarity]]

\* (mutation) the handler goes on without looking at what retrieval returned.
AfterRetrieval_NoCheck(chunks) == "history"

\* "if not chunks: raise HTTPException(status_code=404, ...)".
AfterRetrieval(chunks) == IF chunks = <<>> THEN "notfound" ELSE "history"

\* POST /query/ or /query/stream: search_similar_chunks, then 404 when it
\* returned nothing.
Retrieve(q, mode, session_id, document_id, top_k) ==
    /\ qpc[q] = "idle"
    /\ IF q = 1 THEN TRUE ELSE qpc[q - 1] # "idle"
    /\ session_id \in {None} \cup KnownSessionIds
    /\ ~SearchRaises(top_k)
    /\ qreq' = [qreq EXCEPT ![q] = [mode |-> mode, session_id |-> session_id,
                                    document_id |-> document_id, top_k |-> top_k,
                                    question |-> Question]]
    /\ \E chunks \in search_similar_chunks(store, Question, document_id, top_k) :
          /\ qchunks' = [qchunks EXCEPT ![q] = chunks]
          /\ qpc' = [qpc EXCEPT ![q] = AfterRetrieval(chunks)]
    /\ UNCHANGED << sessions, messages, now, fkey, qhist, qsid, qanswer,
                    qevents, qtx >>
    /\ UNCHANGED << qprompt, qsources >>
    /\ UNCHANGED << ingestVars, batchVars, chunkVars >>

\* search_similar_chunks raises (the store rejected its statement): the
\* handler ends with the error.
SearchFail(q, mode, session_id, document_id, top_k) ==
    /\ qpc[q] = "idle"
    /\ IF q = 1 THEN TRUE ELSE qpc[q - 1] # "idle"
    /\ session_id \in {None} \cup KnownSessionIds
    /\ SearchRaises(top_k)
    /\ qreq' = [qreq EXCEPT ![q] = [mode |-> mode, session_id |-> session_id,
                                    document_id |-> document_id, top_k |-> top_k,
                                    question |-> Question]]
    /\ qpc' = [qpc EXCEPT ![q] = "failed_search"]
    /\ UNCHANGED << sessions, messages, now, fkey, qchunks, qhist, qsid, qanswer,
                    qevents, qtx >>
    /\ UNCHANGED << qprompt, qsources >>
    /\ UNCHANGED << ingestVars, batchVars, chunkVars >>

\* "if request.session_id:" load the chat history; then
\* "session_id = request.session_id or str(uuid.uuid4())".
LoadHistory(q) ==
    /\ qpc[q] = "history"
    /\ IF qreq[q].session_id # None
       THEN \E chat_history \in HistoryLists(messages, qreq[q].session_id) :
               qhist' = [qhist EXCEPT ![q] = chat_history]
       ELSE qhist' = [qhist EXCEPT ![q] = <<>>]
    /\ qsid' = [qsid EXCEPT ![q] = IF qreq[q].session_id # None
                                   THEN qreq[q].session_id
                                   ELSE NewSessionId(q)]
    /\ qpc' = [qpc EXCEPT ![q] = IF qreq[q].mode = "sync" THEN "generate" ELSE "ready"]
    /\ UNCHANGED << sessions, messages, now, fkey, qreq, qchunks, qanswer,
                    qevents, qtx >>
    /\ UNCHANGED << qprompt, qsources >>
    /\ UNCHANGED << ingestVars, batchVars, chunkVars >>

\* answer = await llm_service.generate_response(...).
Generate(q) ==
    /\ qpc[q] = "generate"
    /\ qprompt' = [qprompt EXCEPT ![q] = Prompt(q)]
    /\ qanswer' = [qanswer EXCEPT ![q] = Answer]
    /\ qpc' = [qpc EXCEPT ![q] = "tx"]
    /\ UNCHANGED << sessions, messages, now, fkey, qreq, qchunks, qhist, qsid,
                    qevents, qtx >>
    /\ UNCHANGED qsources
    /\ UNCHANGED << ingestVars, batchVars, chunkVars >>

\* The generation provider raises: before the answer (synchronous), or
\* when the stream is opened or between fragments (streaming).
GenerateFail(q) ==
    /\ qpc[q] \in {"generate", "opening", "streaming"}
    /\ qpc' = [qpc EXCEPT ![q] = "failed_gen"]
    /\ UNCHANGED << sessions, messages, now, fkey, qreq, qchunks, qhist, qsid,
                    qanswer, qevents, qtx >>
    /\ UNCHANGED << qprompt, qsources >>
    /\ UNCHANGED << ingestVars, batchVars, chunkVars >>

\* generate() starts: full_response = ""; the sources event is yielded.
YieldSources(q) ==
    /\ qpc[q] = "ready"
    /\ qanswer' = [qanswer EXCEPT ![q] = ""]
    /\ qsources' = [qsources EXCEPT ![q] = StreamSources(qchunks[q])]
    /\ qevents' = [qevents EXCEPT ![q] =
                      << [type |-> "sources", sources |-> StreamSources(qchunks[q]),
                          session_id |-> qsid[q]] >>]
    /\ qpc' = [qpc EXCEPT ![q] = "opening"]
    /\ UNCHANGED << sessions, messages, now, fkey, qreq, qchunks, qhist, qsid, qtx >>
    /\ UNCHANGED qprompt
    /\ UNCHANGED << ingestVars, batchVars, chunkVars >>

\* The generator is resumed after the sources event and asks
\* generate_response_stream for its first item: the context and the
\* messages are built and the provider's stream is opened.
OpenStream(q) ==
    /\ qpc[q] = "opening"
    /\ qprompt' = [qprompt EXCEPT ![q] = Prompt(q)]
    /\ qpc' = [qpc EXCEPT ![q] = "streaming"]
    /\ UNCHANGED << sessions, messages, now, fkey, qreq, qchunks, qhist, qsid,
                    qanswer, qevents, qtx >>
    /\ UNCHANGED qsources
    /\ UNCHANGED << ingestVars, batchVars, chunkVars >>

\* One turn of "async for text in generate_response_stream(...)":
\* full_response += text; a text event is yielded.
YieldText(q) ==
    /\ qpc[q] = "streaming"
    /\ Len(qevents[q]) < 1 + MaxFrags
    /\ LET text == FragmentAt(Len(qevents[q]))
       IN  /\ qanswer' = [qanswer EXCEPT ![q] = qanswer[q] \o text]
           /\ qevents' = [qevents EXCEPT ![q] =
                             Append(qevents[q], [type |-> "text", content |-> text])]
    /\ UNCHANGED << sessions, messages, now, fkey, qpc, qreq, qchunks, qhist,
                    qsid, qtx >>
    /\ UNCHANGED << qprompt, qsources >>
    /\ UNCHANGED << ingestVars, batchVars, chunkVars >>

\* The generation stream is exhausted: the loop ends and the generator
\* goes on to "with get_db_cursor() as cursor".
StreamEnd(q) ==
    /\ qpc[q] = "streaming"
    /\ qpc' = [qpc EXCEPT ![q] = "tx"]
    /\ UNCHANGED << sessions, messages, now, fkey, qreq, qchunks, qhist, qsid,
                    qanswer, qevents, qtx >>
    /\ UNCHANGED << qprompt, qsources >>
    /\ UNCHANGED << ingestVars, batchVars, chunkVars >>

\* The consumer goes away while the generator is suspended at a yield (or
\* was never started): the generator is closed there.
Abandon(q) ==
    /\ qpc[q] \in {"ready", "opening", "streaming"}
    /\ qpc' = [qpc EXCEPT ![q] = "abandoned"]
    /\ UNCHANGED << sessions, messages, now, fkey, qreq, qchunks, qhist, qsid,
                    qanswer, qevents, qtx >>
    /\ UNCHANGED << qprompt, qsources >>
    /\ UNCHANGED << ingestVars, batchVars, chunkVars >>

\* Whether the session-creating INSERT is executed: "if not request.session_id".
EnsuresSession(q) == qreq[q].session_id = None

\* INSERT INTO "ChatSession" ... ON CONFLICT (id) DO NOTHING.
InsertSession(q) ==
    /\ qpc[q] = "tx"
    /\ EnsuresSession(q)
    /\ qtx' = [qtx EXCEPT ![q].start = Started(q),
                          ![q].sess = \A s \in sessions : s.id # qsid[q]]
    /\ now' = now + 1
    /\ qpc' = [qpc EXCEPT ![q] = "tx_user"]
    /\ UNCHANGED << sessions, messages, fkey, qreq, qchunks, qhist, qsid,
                    qanswer, qevents >>
    /\ UNCHANGED << qprompt, qsources >>
    /\ UNCHANGED << ingestVars, batchVars, chunkVars >>

\* What the foreign key check of an INSERT INTO "ChatMessage" finds.
SessionVisible(q) ==
    \E s \in sessions \cup PendingSessions(q) : s.id = qsid[q]
SessionInFlight(q) ==
    \E o \in Queries \ {q} : QInTx(o) /\ \E s \in PendingSessions(o) : s.id = qsid[q]

AtUserInsert(q) ==
    \/ qpc[q] = "tx_user"
    \/ qpc[q] = "tx" /\ ~EnsuresSession(q)

\* INSERT INTO "ChatMessage" (user) and INSERT INTO "ChatMessage" (assistant).
InsertMessage(q) ==
    /\ AtUserInsert(q) \/ qpc[q] = "tx_assistant"
    /\ fkey => SessionVisible(q)
    /\ qtx' = [qtx EXCEPT ![q].start = Started(q), ![q].nmsg = qtx[q].nmsg + 1]
    /\ now' = now + 1
    /\ qpc' = [qpc EXCEPT ![q] =
                  IF qpc[q] # "tx_assistant" THEN "tx_assistant"
                  ELSE IF qreq[q].mode = "sync" THEN "tx_update" ELSE "tx_commit"]
    /\ UNCHANGED << sessions, messages, fkey, qreq, qchunks, qhist, qsid,
                    qanswer, qevents >>
    /\ UNCHANGED << qprompt, qsources >>
    /\ UNCHANGED << ingestVars, batchVars, chunkVars >>

\* The INSERT raises a foreign key violation: no session row has the id
\* (and no open transaction is about to commit one).
ForeignKeyFail(q) ==
    /\ AtUserInsert(q) \/ qpc[q] = "tx_assistant"
    /\ fkey /\ ~SessionVisible(q) /\ ~SessionInFlight(q)
    /\ now' = now + 1
    /\ qpc' = [qpc EXCEPT ![q] = "failed_fk"]
    /\ UNCHANGED << sessions, messages, fkey, qreq, qchunks, qhist, qsid,
                    qanswer, qevents, qtx >>
    /\ UNCHANGED << qprompt, qsources >>
    /\ UNCHANGED << ingestVars, batchVars, chunkVars >>

\* UPDATE "ChatSession" SET "updatedAt" = NOW() WHERE id = session_id
\* (synchronous path only).  It waits for another open transaction that
\* updated the row.
UpdateSession(q) ==
    /\ qpc[q] = "tx_update"
    /\ \A o \in Queries \ {q} : (QInTx(o) /\ qtx[o].upd) => qsid[o] # qsid[q]
    /\ qtx' = [qtx EXCEPT ![q].upd = TRUE]
    /\ now' = now + 1
    /\ qpc' = [qpc EXCEPT ![q] = "tx_commit"]
    /\ UNCHANGED << sessions, messages, fkey, qreq, qchunks, qhist, qsid,
                    qanswer, qevents >>
    /\ UNCHANGED << qprompt, qsources >>
    /\ UNCHANGED << ingestVars, batchVars, chunkVars >>

\* conn.commit(): the tables after the transaction's writes became visible.
CommitSessions(q) ==
    LET touched == IF qtx[q].upd
                   THEN { s \in sessions \cup PendingSessions(q) : s.id = qsid[q] }
                   ELSE {}
    IN  ((sessions \cup PendingSessions(q)) \ touched)
            \cup { [s EXCEPT !.updatedAt = qtx[q].start] : s \in touched }

CommitMessages(q) == messages \cup PendingMessages(q)

\* The with-block ends; the synchronous handler then builds its sources
\* list and returns the QueryResponse.
QCommit(q) ==
    /\ qpc[q] = "tx_commit"
    /\ sessions' = CommitSessions(q)
    /\ messages' = CommitMessages(q)
    /\ now' = now + 1
    /\ qpc' = [qpc EXCEPT ![q] = IF qreq[q].mode = "sync" THEN "done" ELSE "committed"]
    /\ qsources' = [qsources EXCEPT ![q] = IF qreq[q].mode = "sync"
                                           THEN Sources(qchunks[q])
                                           ELSE qsources[q]]
    /\ UNCHANGED << fkey, qreq, qchunks, qhist, qsid, qanswer, qevents, qtx >>
    /\ UNCHANGED qprompt
    /\ UNCHANGED << ingestVars, batchVars, chunkVars >>

\* (mutation) the except branch commits what the transaction wrote so far.
RollbackMessages_Commits(q) == messages \cup PendingMessages(q)

\* conn.rollback(): the tables after a statement of the transaction raised.
RollbackSessions(q) == sessions
RollbackMessages(q) == messages

StoreFail(q) ==
    /\ qpc[q] = "tx" \/ QInTx(q)
    /\ sessions' = RollbackSessions(q)
    /\ messages' = RollbackMessages(q)
    /\ now' = now + 1
    /\ qpc' = [qpc EXCEPT ![q] = "failed_store"]
    /\ UNCHANGED << fkey, qreq, qchunks, qhist, qsid, qanswer, qevents, qtx >>
    /\ UNCHANGED << qprompt, qsources >>
    /\ UNCHANGED << ingestVars, batchVars, chunkVars >>

\* (mutation) the done event yielded before the with-block.
YieldDone_BeforeSave(q) ==
    /\ qpc[q] = "tx" /\ qreq[q].mode = "stream"
    /\ qevents[q][Len(qevents[q])].type # "done"
    /\ qevents' = [qevents EXCEPT ![q] = Append(qevents[q], [type |-> "done"])]
    /\ UNCHANGED << sessions, messages, now, fkey, qpc, qreq, qchunks, qhist, qsid,
                    qanswer, qtx >>
    /\ UNCHANGED << qprompt, qsources >>
    /\ UNCHANGED << ingestVars, batchVars, chunkVars >>

\* The done event is yielded after the with-block.
YieldDone(q) ==
    /\ qpc[q] = "committed"
    /\ qevents' = [qevents EXCEPT ![q] = Append(qevents[q], [type |-> "done"])]
    /\ qpc' = [qpc EXCEPT ![q] = "done"]
    /\ UNCHANGED << sessions, messages, now, fkey, qreq, qchunks, qhist, qsid,
                    qanswer, qtx >>
    /\ UNCHANGED << qprompt, qsources >>
    /\ UNCHANGED << ingestVars, batchVars, chunkVars >>

Modes == {"sync", "stream"}
Scopes == {None, "d2"}
TopKs == {5}
SessionIds == {None, "sX"} \cup { NewSessionId(o) : o \in Queries }

QueryStep(q) ==
    \/ \E mode \in Modes, session_id \in SessionIds, document_id \in Scopes,
          top_k \in TopKs :
          Retrieve(q, mode, session_id, document_id, top_k)
    \/ LoadHistory(q)
    \/ Generate(q)
    \/ GenerateFail(q)
    \/ YieldSources(q)
    \/ OpenStream(q)
    \/ YieldText(q)
    \/ StreamEnd(q)
    \/ Abandon(q)
    \/ InsertSession(q)
    \/ InsertMessage(q)
    \/ ForeignKeyFail(q)
    \/ UpdateSession(q)
    \/ QCommit(q)
    \/ StoreFail(q)
    \/ YieldDone(q)

NextQuery == \E q \in Queries : QueryStep(q)

\* The queries run against a corpus in which document d1 has been ingested
\* (or against an empty one).
InitIngested ==
    /\ InitQuery
    /\ InitService
    /\ fkey \in BOOLEAN
    /\ \E pages \in {<<>>, PagesA} :
          LET chunks == chunk_document(pages)
              zipped == Zip(chunks, embed_texts([k \in 1..Len(chunks) |-> chunks[k].content]))
          IN  /\ rpc = [r \in Runs |-> IF r = 1 /\ pages # <<>> THEN "done" ELSE "idle"]
              /\ rdoc = [r \in Runs |-> IF r = 1 /\ pages # <<>> THEN "d1" ELSE None]
              /\ rpages = [r \in Runs |-> IF r = 1 THEN pages ELSE <<>>]
              /\ rzip = [r \in Runs |-> IF r = 1 THEN zipped ELSE <<>>]
              /\ rins = [r \in Runs |-> IF r = 1 THEN Len(zipped) ELSE 0]
              /\ store = { ChunkRow(1, "d1", zipped[k], k) : k \in 1..Len(zipped) }
              /\ lastCommit = [d \in Docs |-> IF d = "d1" /\ pages # <<>> THEN 1 ELSE 0]
    /\ rsnap = [r \in Runs |-> {}]
    /\ rdel = [r \in Runs |-> {}]
    /\ overlapped = {}
    /\ lastRead = [doc |-> None, rows |-> {}, fresh |-> TRUE]

QuerySpec == InitIngested /\ [][NextQuery]_vars

\* ----------------------------------------------------------------- chunking
\* chunk_document and the loop of chunk_text, one turn at a time, under the
\* settings the service may be configured with.
MaxSize == 3             \* chunk_size and chunk_overlap tried besides config.py's
MaxTokens == 5           \* tokens of a page tried under those

SettingsChoices ==
    { [chunk_size |-> chunk_size, chunk_overlap |-> chunk_overlap] } \cup
    { [chunk_size |-> size, chunk_overlap |-> overlap] :
          size \in 1..MaxSize, overlap \in 0..MaxSize }

\* Extracted documents of one page, or of two with a blank page between.
SmallPageChoices ==
    { << [page |-> 1, text |-> "P1", ntok |-> n] >> : n \in 1..MaxTokens } \cup
    { << [page |-> 1, text |-> "P1", ntok |-> n],
         [page |-> 3, text |-> "P3", ntok |-> m] >> : n, m \in 1..MaxTokens }

IdleRuns ==
    /\ rpc = [r \in Runs |-> "idle"]
    /\ rdoc = [r \in Runs |-> None]
    /\ rpages = [r \in Runs |-> <<>>]
    /\ rzip = [r \in Runs |-> <<>>]
    /\ rsnap = [r \in Runs |-> {}]
    /\ rdel = [r \in Runs |-> {}]
    /\ rins = [r \in Runs |-> 0]
    /\ lastCommit = [d \in Docs |-> 0]
    /\ overlapped = {}
    /\ lastRead = [doc |-> None, rows |-> {}, fresh |-> TRUE]

InitChunk ==
    /\ InitQuery
    /\ fkey = TRUE
    /\ store = {}
    /\ IdleRuns
    /\ batch = NoBatch
    /\ settings \in SettingsChoices
    /\ chunker = NoCall

\* The page chunk_text is working on.
CurrentPage == chunker.pages[chunker.p]

\* The documents tried: those of the ingestion model under the settings of
\* config.py, small ones under small settings.
ChunkPageChoices ==
    IF settings.chunk_size = chunk_size THEN PageChoices ELSE SmallPageChoices

\* chunk_document(pages) is called: all_chunks = [], current_chunk_index = 0.
ChunkDocumentCall(pages) ==
    /\ chunker.pc = "idle"
    /\ pages \in ChunkPageChoices
    /\ chunker' = [NoCall EXCEPT !.pc = "page", !.pages = pages, !.p = 1]
    /\ UNCHANGED << settings, batch >>
    /\ UNCHANGED << ingestVars, queryVars >>

\* "for page_data in pages": chunk_text(text, page_start=page_num) is
\* called; tokens = encode(text), chunks = [], chunk_index = 0, i = 0.
ChunkTextCall ==
    /\ chunker.pc = "page"
    /\ chunker.p <= Len(chunker.pages)
    /\ chunker' = [chunker EXCEPT !.pc = "loop", !.i = 0, !.chunk_index = 0,
                                  !.chunks = <<>>]
    /\ UNCHANGED << settings, batch >>
    /\ UNCHANGED << ingestVars, queryVars >>

\* One turn of "while i < len(tokens)".  (A loop that has appended more
\* windows than the page has tokens is followed no further.)
ChunkTurn ==
    /\ chunker.pc = "loop"
    /\ chunker.i < CurrentPage.ntok
    /\ Len(chunker.chunks) <= CurrentPage.ntok
    /\ chunker' = [chunker EXCEPT
                      !.chunks = Append(chunker.chunks,
                                        ChunkDict(settings.chunk_size, CurrentPage.text,
                                                  CurrentPage.ntok, CurrentPage.page,
                                                  chunker.i, chunker.chunk_index)),
                      !.chunk_index = chunker.chunk_index + 1,
                      !.i = chunker.i + Stride(settings.chunk_size, settings.chunk_overlap)]
    /\ UNCHANGED << settings, batch >>
    /\ UNCHANGED << ingestVars, queryVars >>

\* The loop ends and chunk_text returns: chunk_document renumbers the page's
\* chunks from current_chunk_index on and appends them to all_chunks.
ChunkTextReturn ==
    /\ chunker.pc = "loop"
    /\ ~(chunker.i < CurrentPage.ntok)
    /\ chunker' = [chunker EXCEPT
                      !.pc = "page",
                      !.p = chunker.p + 1,
                      !.all_chunks = chunker.all_chunks \o
                                     Renumber(chunker.chunks, Len(chunker.all_chunks))]
    /\ UNCHANGED << settings, batch >>
    /\ UNCHANGED << ingestVars, queryVars >>

\* The pages are exhausted: chunk_document returns all_chunks.
ChunkDocumentReturn ==
    /\ chunker.pc = "page"
    /\ chunker.p > Len(chunker.pages)
    /\ chunker' = [chunker EXCEPT !.pc = "done"]
    /\ UNCHANGED << settings, batch >>
    /\ UNCHANGED << ingestVars, queryVars >>

NextChunk ==
    \/ \E pages \in PageChoices \cup SmallPageChoices : ChunkDocumentCall(pages)
    \/ ChunkTextCall
    \/ ChunkTurn
    \/ ChunkTextReturn
    \/ ChunkDocumentReturn

ChunkSpec == InitChunk /\ [][NextChunk]_vars

\* ------------------------------------------------------------------- search
\* search_similar_chunks on its own, over the corpora and the requests it can
\* meet.  A corpus holds up to MaxPassages passages per document, numbered
\* from 0, each with an embedding or none (NULL).
MaxPassages == 2
Embeddings == {-1, 0, 2}
EmbeddingLists == UNION { [1..n -> Embeddings] : n \in 0..MaxPassages }

CorpusRows(d, embs) ==
    { [id |-> << d, k >>,
       documentId |-> d,
       content |-> Window(d, 0, 100),
       pageStart |-> k,
       sectionTitle |-> None,
       chunkIndex |-> k - 1,
       embedding |-> embs[k]] : k \in 1..Len(embs) }

SearchScopes == {None, "", "d1", "d2"}   \* QueryRequest.document_id: Optional[str]
SearchTopKs == {-1, 0, 1, 2, 5}          \* QueryRequest.top_k: int

InitSearch ==
    /\ InitQuery
    /\ InitService
    /\ fkey = TRUE
    /\ \E e1, e2 \in EmbeddingLists :
          store = CorpusRows("d1", e1) \cup CorpusRows("d2", e2)
    /\ IdleRuns

NextSearch ==
    \E q \in Queries, document_id \in SearchScopes, top_k \in SearchTopKs :
        \/ Retrieve(q, "sync", None, document_id, top_k)
        \/ SearchFail(q, "sync", None, document_id, top_k)

SearchSpec == InitSearch /\ [][NextSearch]_vars

\* ==================================================================== claims
Committed(r) == rpc[r] = "done"

\* The (chunkIndex, content, pageStart) tuples of a set of rows.
Tuples(rows) == { << row.chunkIndex, row.content, row.pageStart >> : row \in rows }

\* A step of run r.
StepOf(r) == rpc'[r] # rpc[r] \/ rins'[r] # rins[r]

\* C1: a status read of document D returns either the passages D had before
\* any ingestion committed, or exactly the complete passage set one
\* ingestion run wrote: never a partial set and never passages of two runs.
C1_ReadersSeeOldOrNew ==
    lastRead.doc # None =>
        \/ lastRead.fresh /\ lastRead.rows = {}
        \/ \E r \in Runs : /\ rdoc[r] = lastRead.doc
                           /\ rzip[r] # <<>>
                           /\ lastRead.rows = AllRows(r)

\* C2: a step in which a run's open transaction fails (a statement after the
\* DELETE started raises) leaves the committed passage table exactly as it
\* was and ends the run as failed; and the committed table never holds a row
\* of a run that did not commit.
C2_FailedStoreRollsBack ==
    [][ /\ \A r \in Runs :
             (InTx(r) /\ rpc'[r] = "failed") => store' = store
        /\ \A row \in store' : rpc'[row.id[1]] = "done" ]_vars

C2_Witness ==
    \E r \in Runs : /\ rpc[r] = "failed"
                    /\ rins[r] >= 1
                    /\ rins[r] < Len(rzip[r])
                    /\ rdel[r] # {}
                    /\ rdel[r] \subseteq Ids(store)

\* C3: in every committed state the chunkIndex values of each document's
\* passages are exactly 0..n-1, n being the number of its passages.
C3_OrdinalDensity ==
    \A d \in Docs :
        LET rows == DocRows(store, d)
        IN  { row.chunkIndex : row \in rows } = 0..(Cardinality(rows) - 1)

\* C4: once the runs for one document whose transactions overlapped have all
\* committed, the document's passages are exactly those of the run that
\* committed last.
C4_LastCommitWins ==
    \A d \in Docs :
        LET racing == { r \in overlapped : rdoc[r] = d }
        IN  (racing # {} /\ \A r \in racing : Committed(r))
                => DocRows(store, d) = AllRows(lastCommit[d])

\* C5: two runs for one document, one after the other, with the same
\* extracted pages: after the second commits, the document's passages have
\* the (chunkIndex, content, pageStart) tuples of the first run's, and as
\* many rows (not the first run's and the second run's together).
C5_ReingestIdempotent ==
    \A r1, r2 \in Runs :
        ( /\ r1 < r2
          /\ Committed(r1) /\ Committed(r2)
          /\ rdoc[r1] = rdoc[r2]
          /\ rpages[r1] = rpages[r2]
          /\ lastCommit[rdoc[r2]] = r2 )
        => LET rows == DocRows(store, rdoc[r2])
           IN  /\ Tuples(rows) = Tuples(AllRows(r1))
               /\ Cardinality(rows) = Cardinality(AllRows(r1))
               /\ Ids(rows) \cap Ids(AllRows(r1)) = {}

C5_Witness ==
    \E r1, r2 \in Runs :
        /\ r1 < r2
        /\ Committed(r1) /\ Committed(r2)
        /\ rdoc[r1] = rdoc[r2]
        /\ rpages[r1] = rpages[r2]
        /\ Len(rzip[r2]) = 3
        /\ rdel[r2] = Ids(AllRows(r1))

\* C6: no step of a run for document D, whether the run goes on to commit
\* or to fail, changes the committed passages of another document.
C6_OtherDocumentsUntouched ==
    [][ \A r \in Runs : \A d \in Docs :
            (StepOf(r) /\ d # rdoc'[r])
                => DocRows(store', d) = DocRows(store, d) ]_vars

C6_Witness ==
    \E r, o \in Runs :
        /\ rdoc[r] = "d1" /\ rdoc[o] = "d2"
        /\ Committed(o)
        /\ rpc[r] = "inserting" /\ rins[r] >= 1
        /\ DocRows(store, "d2") = AllRows(o)


\* The committed messages query q wrote.
MessagesOf(q) == { m \in messages : m.id[1] = q }

\* C7: a synchronous query that has returned has written exactly two
\* messages to the session it used, a user message with the question and an
\* assistant message with the answer; a synchronous query that has not
\* returned (still under way, or failed in generation or in the store) has
\* no message and no session record of its own in the committed tables.
C7_ExchangeAtomic ==
    \A q \in Queries :
        qreq[q].mode = "sync" =>
            /\ qpc[q] = "done" =>
                  \E u, a \in MessagesOf(q) :
                      /\ MessagesOf(q) = {u, a}
                      /\ u.role = "user" /\ u.content = qreq[q].question
                      /\ a.role = "assistant" /\ a.content = Answer
                      /\ u.sessionId = qsid[q] /\ a.sessionId = qsid[q]
            /\ qpc[q] # "done" =>
                  /\ MessagesOf(q) = {}
                  /\ \A s \in sessions : s.id # NewSessionId(q)

C7_Witness ==
    \E q, o \in Queries :
        /\ qreq[q].mode = "sync" /\ qpc[q] = "done"
        /\ Cardinality(MessagesOf(q)) = 2
        /\ qreq[o].mode = "sync" /\ qpc[o] = "failed_store"
        /\ qreq[o].session_id = None
        /\ qtx[o].sess /\ qtx[o].nmsg = 1

\* C8: for every persisted exchange the user message's createdAt is
\* strictly less than the assistant message's.
C8_TimestampsStrictlyIncrease ==
    \A u, a \in messages :
        (u.id[1] = a.id[1] /\ u.role = "user" /\ a.role = "assistant")
            => u.createdAt < a.createdAt

\* C9: the persisting step creates the session record when it is absent,
\* whatever session id it runs with: it never fails for want of the record,
\* every committed message belongs to an existing session, and no session
\* id has two records.
C9_SessionEnsured ==
    /\ \A q \in Queries : qpc[q] # "failed_fk"
    /\ \A m \in messages : \E s \in sessions : s.id = m.sessionId
    /\ \A s1, s2 \in sessions : s1.id = s2.id => s1 = s2

\* The contents of the text events of a list of events, joined in order.
RECURSIVE JoinText(_)
JoinText(events) ==
    IF events = <<>> THEN ""
    ELSE LET rest == JoinText(SubSeq(events, 1, Len(events) - 1))
             last == events[Len(events)]
         IN  IF last.type = "text" THEN rest \o last.content ELSE rest

\* C10: a streaming query has messages in the committed table only once its
\* fragment stream is exhausted, and then exactly one user and one assistant
\* message, the assistant message holding the emitted fragments joined in
\* order; while fragments are still being delivered no persistence has begun;
\* a stream the consumer abandoned or whose generation failed has none; a
\* stream that ended with its done event has them.
C10_StreamPersistsOnceAtEnd ==
    \A q \in Queries :
        qreq[q].mode = "stream" =>
            /\ MessagesOf(q) # {} =>
                  /\ qpc[q] \in {"committed", "done"}
                  /\ \E u, a \in MessagesOf(q) :
                        /\ MessagesOf(q) = {u, a}
                        /\ u.role = "user" /\ a.role = "assistant"
                        /\ a.content = JoinText(qevents[q])
            /\ qpc[q] \in {"ready", "opening", "streaming"} => qtx[q] = NoTx
            /\ qpc[q] \in {"abandoned", "failed_gen"} =>
                  MessagesOf(q) = {} /\ qtx[q] = NoTx
            /\ qpc[q] = "done" => MessagesOf(q) # {}

C10_Witness ==
    \E q, o \in Queries :
        /\ qreq[q].mode = "stream" /\ qpc[q] = "done"
        /\ Len(qevents[q]) = MaxFrags + 2
        /\ \E a \in MessagesOf(q) : a.role = "assistant" /\ a.content = "ab"
        /\ qreq[o].mode = "stream" /\ qpc[o] = "abandoned"
        /\ Len(qevents[o]) >= 2

\* C11: the events of a streaming query are one sources event, then text
\* events carrying the generated fragments in generation order, then at most
\* one done event, which is the last event; a streaming query that has
\* completed has emitted its done event, and a done event has been emitted
\* only when the query's two messages are in the committed table.
C11_StreamEventOrder ==
    \A q \in Queries :
        LET ev == qevents[q]
            n == Len(ev)
        IN  /\ n >= 1 => ev[1].type = "sources"
            /\ \A k \in 2..n :
                  \/ ev[k].type = "text" /\ ev[k].content = FragmentAt(k - 1)
                  \/ ev[k].type = "done" /\ k = n
            /\ (n >= 1 /\ ev[n].type = "done") =>
                  /\ qpc[q] = "done"
                  /\ Cardinality(MessagesOf(q)) = 2
            /\ (qreq[q].mode = "stream" /\ qpc[q] = "done") =>
                  n >= 2 /\ ev[n].type = "done"

C11_Witness ==
    \E q, o \in Queries :
        /\ qreq[q].mode = "stream" /\ qpc[q] = "done"
        /\ Len(qevents[q]) = MaxFrags + 2
        /\ qevents[q][2].type = "text"
        /\ qevents[q][MaxFrags + 2].type = "done"
        /\ qreq[o].mode = "stream" /\ qpc[o] = "done"
        /\ Len(qevents[o]) = 2

\* The state of the per-query state machine a handler position belongs to.
Phase(pc) ==
    CASE pc = "idle" -> "Idle"
      [] pc = "history" -> "Retrieving"
      [] pc \in {"generate", "ready", "opening", "streaming"} -> "Generating"
      [] pc \in {"tx", "tx_user", "tx_assistant", "tx_update", "tx_commit",
                 "committed"} -> "Persisting"
      [] pc = "done" -> "Done"
      [] pc = "notfound" -> "Failed:NotFound"
      [] OTHER -> "Failed"

Rank(phase) ==
    CASE phase = "Idle" -> 0
      [] phase = "Retrieving" -> 1
      [] phase = "Generating" -> 2
      [] phase = "Persisting" -> 3
      [] phase = "Done" -> 4
      [] OTHER -> 5

\* C12: a query whose retrieval returns nothing ends in Failed:NotFound
\* straight from retrieval, with the generation provider not called, no
\* event emitted and nothing written; a query goes on past retrieval only
\* with results; a query moves from a state only to the next one of
\* Retrieving, Generating, Persisting, Done or to a failure, and never
\* leaves Done or a failure.
C12_QueryStateMachine ==
    [][ \A q \in Queries :
          LET old == Phase(qpc[q])
              new == Phase(qpc'[q])
          IN  /\ new # old =>
                    /\ Rank(old) < 4
                    /\ Rank(new) = Rank(old) + 1 \/ Rank(new) = 5
                    /\ new = "Failed:NotFound" => old = "Idle"
              /\ (old = "Idle" /\ new # old) =>
                    (new = "Failed:NotFound" <=> qchunks'[q] = <<>>)
              /\ new = "Failed:NotFound" =>
                    /\ qprompt'[q] = NoPrompt
                    /\ qanswer'[q] = "" /\ qevents'[q] = <<>>
                    /\ qtx'[q] = NoTx
                    /\ \A m \in messages' : m.id[1] # q
                    /\ \A s \in sessions' : s.id # NewSessionId(q) ]_vars

C12_Witness ==
    \E q, o \in Queries :
        /\ qpc[q] = "notfound" /\ qreq[q].document_id = "d2"
        /\ store # {}
        /\ qpc[o] = "done" /\ qreq[o].mode = "stream"

\* The search of query q has been made.
Searched(q) == qpc[q] # "idle"

\* C13: whatever the store holds and whatever top_k the request carries,
\* the search returns a list (it does not raise) of at most top_k results,
\* in non-increasing similarity, each the row of a passage with an
\* embedding and with similarity 1 - cosine distance; and the empty list
\* when no passage in scope has an embedding.
C13_RetrievalRanking ==
    \A q \in Queries :
        Searched(q) =>
            LET res == qchunks[q]
                inScope == { row \in store :
                               /\ HasEmbedding(row)
                               /\ qreq[q].document_id \in Docs
                                     => row.documentId = qreq[q].document_id }
            IN  /\ qpc[q] # "failed_search"
                /\ Len(res) <= qreq[q].top_k
                /\ \A i, j \in 1..Len(res) :
                      i < j => res[i].similarity >= res[j].similarity
                /\ \A i \in 1..Len(res) :
                      \E row \in store :
                          /\ row.id = res[i].id
                          /\ HasEmbedding(row)
                          /\ res[i].similarity =
                                1 - CosineDistance(row.embedding, embed_text(qreq[q].question))
                /\ inScope = {} => res = <<>>

\* C14: when the request carries a document_id (anything but null), every
\* passage the search returns belongs to that document.
C14_ScopedSearchStaysInScope ==
    \A q \in Queries :
        (Searched(q) /\ qreq[q].document_id # None) =>
            \A i \in 1..Len(qchunks[q]) :
                qchunks[q][i].document_id = qreq[q].document_id

\* C15: when a query has both called the generation provider and handed its
\* sources to the caller (in the synchronous response or in the streaming
\* sources event), the context has one block per retrieval result and the
\* sources list one element per retrieval result; the k-th block is
\* labelled [Source k] (k = 1..n) and the k-th block and the k-th source are
\* both built from the k-th retrieval result: same document title, page and
\* passage text.
C15_CitationMapping ==
    \A q \in Queries :
        (qprompt[q] # NoPrompt /\ qsources[q] # <<>>) =>
            LET ctx == qprompt[q].context
                src == qsources[q]
                res == qchunks[q]
            IN  /\ Len(ctx) = Len(res) /\ Len(src) = Len(res)
                /\ \A k \in 1..Len(res) :
                      /\ ctx[k].label = k
                      /\ ctx[k].content = res[k].content
                      /\ ctx[k].title = res[k].title
                      /\ ctx[k].page = res[k].page_start
                      /\ src[k].document_id = res[k].document_id
                      /\ src[k].content_preview.of = res[k].content
                      /\ src[k].title = ctx[k].title
                      /\ src[k].page = ctx[k].page
                      /\ src[k].similarity = res[k].similarity

C15_Witness ==
    \E q, o \in Queries :
        /\ qreq[q].mode = "sync" /\ qpc[q] = "done"
        /\ Len(qsources[q]) = 3 /\ Len(qprompt[q].context) = 3
        /\ qsources[q][1].content_preview.of # qsources[q][2].content_preview.of
        /\ qreq[o].mode = "stream" /\ qpc[o] = "streaming"
        /\ Len(qsources[o]) = 3 /\ Len(qprompt[o].context) = 3

\* Creation order of two messages: by createdAt, and within one exchange
\* the user message before the assistant message.
CreatedBefore(m1, m2) ==
    \/ m1.createdAt < m2.createdAt
    \/ /\ m1.createdAt = m2.createdAt
       /\ m1.id[1] = m2.id[1]
       /\ m1.role = "user" /\ m2.role = "assistant"

\* The oldest min(history_limit, m) messages of session sid in creation
\* order, as role and content.
OldestInOrder(msgs, sid) ==
    LET mine == { m \in msgs : m.sessionId = sid }
        n == Min(history_limit, Cardinality(mine))
        t == CHOOSE f \in [1..n -> mine] :
                /\ \A i, j \in 1..n : i < j => CreatedBefore(f[i], f[j])
                /\ \A m \in mine :
                      (\A i \in 1..n : f[i] # m) => \A i \in 1..n : CreatedBefore(f[i], m)
    IN  [i \in 1..n |-> [role |-> t[i].role, content |-> t[i].content]]

\* C16: the history a query on session S loads is the oldest
\* min(10, m) messages S holds at that moment, in creation order; and the
\* messages the generation provider is called with are that history
\* followed by the question as the final user turn.
C16_HistoryWindow ==
    [][ \A q \in Queries :
          /\ (qpc[q] = "history" /\ qpc'[q] # "history" /\ qreq[q].session_id # None)
                => qhist'[q] = OldestInOrder(messages, qreq[q].session_id)
          /\ qprompt'[q] # NoPrompt
                => qprompt'[q].messages =
                      qhist'[q] \o << [role |-> "user", content |-> qreq'[q].question] >>
      ]_vars

\* C17: when a batch has ended, every document it selected has been
\* processed, whether or not an earlier document of the batch failed; and
\* the summary of the synchronous variant has processed = completed + failed
\* = the number of selected documents, with one failed entry, carrying an
\* error message, per document whose ingestion failed.
C17_BatchSurvivesFailure ==
    /\ batch.state \in {"returned", "finished", "aborted"} =>
          \A k \in 1..Len(batch.documents) :
              rpc[k] \in {"done", "empty", "failed"} /\ rdoc[k] = batch.documents[k]
    /\ batch.state = "returned" =>
          /\ batch.summary.processed = Len(batch.documents)
          /\ batch.summary.processed = batch.summary.completed + batch.summary.failed
          /\ Len(batch.results) = Len(batch.documents)
          /\ \A k \in 1..Len(batch.results) :
                /\ batch.results[k].id = batch.documents[k]
                /\ batch.results[k].status = "failed" <=> rpc[k] = "failed"
                /\ batch.results[k].status = "failed" => batch.results[k].error # None
          /\ batch.summary.failed =
                Cardinality({ k \in 1..Len(batch.documents) : rpc[k] = "failed" })

\* C18: with chunk_overlap >= chunk_size the chunking of a page that has a
\* token is refused: no turn of the loop runs and no window is appended;
\* and under any settings the loop appends at most one window per token of
\* the page (each turn moves forward, so the loop ends).
C18_NonPositiveStrideRejected ==
    /\ settings.chunk_overlap >= settings.chunk_size =>
          chunker.chunks = <<>> /\ chunker.all_chunks = <<>>
    /\ chunker.pc = "loop" => Len(chunker.chunks) <= CurrentPage.ntok

\* The tokens of a text of ntok tokens, each known by its text and offset.
Tokens(text, ntok) == [j \in 1..ntok |-> << text, j - 1 >>]

\* The tokens a passage's content decodes from.
WindowTokens(content) ==
    [j \in 1..(content.hi - content.lo) |-> << content.text, content.lo + j - 1 >>]

\* A list without its first n items (empty when it has no more than n).
Drop(seq, n) == IF n >= Len(seq) THEN <<>> ELSE SubSeq(seq, n + 1, Len(seq))

\* The windows joined in order, every window but the first without its
\* leading overlap tokens.
RECURSIVE Reconstruct(_, _)
Reconstruct(chunks, overlap) ==
    IF chunks = <<>> THEN <<>>
    ELSE LET n == Len(chunks)
             last == WindowTokens(chunks[n].content)
         IN  Reconstruct(SubSeq(chunks, 1, n - 1), overlap)
                 \o (IF n = 1 THEN last ELSE Drop(last, overlap))

\* C19: with chunk_size > chunk_overlap >= 0, the k-th window (k from 0)
\* the loop of chunk_text appends starts at token offset
\* k * (chunk_size - chunk_overlap) and holds the tokens from there up to
\* chunk_size of them; and when the loop has ended, the windows joined in
\* order, each but the first without its leading chunk_overlap tokens, are
\* exactly the page's tokens.
C19_ChunkingCoverage ==
    (chunker.pc = "loop" /\ settings.chunk_size > settings.chunk_overlap) =>
        LET size == settings.chunk_size
            overlap == settings.chunk_overlap
            ntok == CurrentPage.ntok
        IN  /\ \A k \in 0..(Len(chunker.chunks) - 1) :
                  LET content == chunker.chunks[k + 1].content
                  IN  /\ content.text = CurrentPage.text
                      /\ content.lo = k * (size - overlap)
                      /\ content.hi = Min(content.lo + size, ntok)
            /\ ~(chunker.i < ntok) =>
                  Reconstruct(chunker.chunks, overlap) = Tokens(CurrentPage.text, ntok)

C19_Witness ==
    /\ chunker.pc = "loop"
    /\ settings.chunk_size = 3 /\ settings.chunk_overlap = 2
    /\ CurrentPage.ntok = 5
    /\ ~(chunker.i < CurrentPage.ntok)
    /\ Len(chunker.chunks) = 5
    /\ chunker.chunks[5].token_count = 1

\* C20: the list chunk_document returns has chunk_index 0, 1, 2, ... over the
\* whole document, the chunks of a page before those of the next page; every
\* chunk's page_start is the page number of the page its tokens are from,
\* and its token_count the length of its window; and for pages of 600 and
\* 100 tokens under chunk_size 512 and chunk_overlap 50 it is three chunks:
\* tokens [0:512] and [462:600] of page 1 and [0:100] of page 2, chunk_index
\* 0, 1, 2, page_start 1, 1, 2.
C20_GlobalOrdinals ==
    chunker.pc = "done" =>
        LET all == chunker.all_chunks
        IN  /\ \A k \in 1..Len(all) :
                  /\ all[k].chunk_index = k - 1
                  /\ all[k].token_count = Len(WindowTokens(all[k].content))
                  /\ \E p \in 1..Len(chunker.pages) :
                        /\ chunker.pages[p].text = all[k].content.text
                        /\ chunker.pages[p].page = all[k].page_start
            /\ \A k, l \in 1..Len(all) : k < l => all[k].page_start <= all[l].page_start
            /\ \A p \in 1..Len(chunker.pages) :
                  \E k \in 1..Len(all) : all[k].page_start = chunker.pages[p].page
            /\ (settings.chunk_size = 512 /\ settings.chunk_overlap = 50
                    /\ chunker.pages = PagesA) =>
                  all = << [content |-> [text |-> "A1", lo |-> 0, hi |-> 512],
                            page_start |-> 1, section_title |-> None,
                            chunk_index |-> 0, token_count |-> 512],
                           [content |-> [text |-> "A1", lo |-> 462, hi |-> 600],
                            page_start |-> 1, section_title |-> None,
                            chunk_index |-> 1, token_count |-> 138],
                           [content |-> [text |-> "A2", lo |-> 0, hi |-> 100],
                            page_start |-> 2, section_title |-> None,
                            chunk_index |-> 2, token_count |-> 100] >>

C20_Witness ==
    /\ chunker.pc = "done"
    /\ settings.chunk_size = 512 /\ settings.chunk_overlap = 50
    /\ chunker.pages = PagesA
    /\ Len(chunker.all_chunks) = 3

\* C21: a session's updatedAt is never older than the createdAt of any of
\* its committed messages, whichever path persisted them.
C21_UpdatedAtFollowsMessages ==
    \A sess \in sessions : \A m \in messages :
        m.sessionId = sess.id => sess.updatedAt >= m.createdAt

\* C22: the sources list handed to the caller, in the synchronous response
\* or in the streaming sources event, has one element per retrieval result,
\* in order, with the result's fields; its content preview is the whole
\* content when that has at most 200 characters and otherwise its first 200
\* characters followed by the ellipsis marker; so two queries with the same
\* retrieval results hand out the same list.
C22_SameSourcesBothPaths ==
    /\ \A q \in Queries :
          qsources[q] # <<>> =>
              /\ Len(qsources[q]) = Len(qchunks[q])
              /\ \A k \in 1..Len(qsources[q]) :
                    LET src == qsources[q][k]
                        res == qchunks[q][k]
                        n == ContentLen(res.content)
                    IN  /\ src.document_id = res.document_id
                        /\ src.title = res.title
                        /\ src.fda_document_id = res.fda_document_id
                        /\ src.page = res.page_start
                        /\ src.similarity = res.similarity
                        /\ src.content_preview.of = res.content
                        /\ src.content_preview.chars = Min(n, 200)
                        /\ src.content_preview.ellipsis <=> n > 200
    /\ \A q, o \in Queries :
          (qsources[q] # <<>> /\ qsources[o] # <<>> /\ qchunks[q] = qchunks[o])
              => qsources[q] = qsources[o]

\* C23: when a run ends because the extractor returned no pages (it returns
\* without raising), its document has no committed passage, whatever it held
\* before, so that its passage count is 0 and its status pending.
C23_ExtractionEmptyLeavesNoPassages ==
    [][ \A r \in Runs :
          (rpc'[r] = "empty" /\ rpc[r] # "empty") =>
              DocRows(store', rdoc'[r]) = {} ]_vars

\* C24: with chunk_size > chunk_overlap >= 0, every window the loop of
\* chunk_text has appended holds at least one token, and every window but
\* the last one appended holds exactly chunk_size tokens.
C24_OnlyFinalWindowPartial ==
    (chunker.pc = "loop" /\ settings.chunk_size > settings.chunk_overlap) =>
        \A k \in 1..Len(chunker.chunks) :
            /\ chunker.chunks[k].token_count >= 1
            /\ k < Len(chunker.chunks) =>
                  chunker.chunks[k].token_count = settings.chunk_size

\* C25: a run that fails in extraction, chunking or embedding fails with no
\* transaction opened: the step leaves the passage table and the chat tables
\* as they were, and the run has deleted and inserted nothing; and a run's
\* DELETE starts only when the run holds an embedding for every chunk of
\* its pages.
C25_FailureBeforeTransaction ==
    [][ \A r \in Runs :
          /\ (rpc[r] \in {"extract", "chunk"} /\ rpc'[r] = "failed") =>
                /\ store' = store
                /\ sessions' = sessions /\ messages' = messages
                /\ rsnap'[r] = {} /\ rdel'[r] = {} /\ rins'[r] = 0
          /\ (rpc[r] # "deleting" /\ rpc'[r] = "deleting") =>
                /\ Len(rzip[r]) = Len(chunk_document(rpages[r]))
                /\ \A k \in 1..Len(rzip[r]) :
                      /\ rzip[r][k].chunk = chunk_document(rpages[r])[k]
                      /\ rzip[r][k].embedding >= 0 ]_vars

C25_Witness ==
    \E r, o \in Runs :
        /\ rpc[r] = "failed" /\ rpages[r] # <<>> /\ rzip[r] = <<>>
        /\ Committed(o) /\ rdoc[o] = rdoc[r]
        /\ AllRows(o) # {}
        /\ DocRows(store, rdoc[r]) = AllRows(o)

=============================================================================
